---- MODULE Spec2Model ----
(***************************************************************************)
(* sight-reader: the MIDI device session and the note decoding pipeline.   *)
(*                                                                         *)
(* Two entry points of the repository are modelled against one browser:    *)
(*   - the Home route component (src/app/routes/home.tsx): a useReducer    *)
(*     state, a held-note set and three effects that subscribe listeners;  *)
(*   - the XState machines (src/app/machines/midi-devices-machine.ts):     *)
(*     the midiDevicesMachine orchestrator, its midiAccessMachine child    *)
(*     and the child's `listen` callback actor.                            *)
(* Home does not import the machines, so a run mounts one of the two.      *)
(* The browser (permission status, requestMIDIAccess, the ports, hot-plug  *)
(* and midimessage events) is the environment.                             *)
(***************************************************************************)
EXTENDS Integers, Sequences, FiniteSets, TLC

VARIABLES
    mounted,        \* which entry point runs: "home" or "machine"
    portState,      \* browser: MIDIPort.state of every port
    permissionStatus, \* browser: what permissions.query resolved to
    requestCalls,   \* browser: number of navigator.requestMIDIAccess calls
    accessOutcome,  \* browser: what requestMIDIAccess settled to
    lastEvent,      \* browser: the last event dispatched to a listener
    logged,         \* console.log calls of the listeners for lastEvent
    listenerError,  \* whether a listener threw on lastEvent
    \* ---- Home component
    hPc,            \* position of the permission promise chain
    state,          \* useReducer state {midiAccess, selectedMidiDeviceId}
    notes,          \* useState held-note set
    hOptions,       \* port ids rendered as <option>s at the last render
    hStatechange,   \* access handle carrying Home's statechange listener
    hMidimessage,   \* port carrying Home's midimessage listener
    hRendered,      \* the last dispatch or setNotes made Home render again
    received,       \* history: payloads Home's listener was called with
    trail,          \* history: the held-note set after each of them
    \* ---- midiDevicesMachine (orchestrator)
    mState,         \* "loading" | "loaded" | "error"
    mContext,       \* context.midiAccess
    oPc,            \* position of the obtain-midi-access promise actor
    mStopSeen,      \* a stop event has been handled
    mChildren,      \* number of running midi-access child machines
    \* ---- midiAccessMachine (child) and its listen actor
    aContext,       \* context {midiAccess, selectedMidiDeviceId}
    lStatus,        \* listen actor: "none" | "active" | "stopped"
    lStatechange,   \* statechangeHandler is registered on the access handle
    lOpening,       \* ports whose open() promise is pending
    lMsgListeners,  \* ports carrying a midimessage listener of the actor
    lEmitted        \* what statechangeHandler emitted for lastEvent

envVars == <<mounted, portState, permissionStatus, requestCalls,
             accessOutcome, lastEvent, logged, listenerError>>
homeVars == <<hPc, state, notes, hOptions, hStatechange, hMidimessage,
              hRendered>>
histVars == <<received, trail>>
orchVars == <<mState, mContext, oPc, mStopSeen, mChildren>>
childVars == <<aContext, lStatus, lStatechange, lOpening, lMsgListeners,
               lEmitted>>
vars == <<envVars, homeVars, orchVars, childVars, histVars>>

----------------------------------------------------------------------------
(* Bounds of the model *)

\* longest midimessage payload the ports deliver
MaxLen == 4

\* the longest recorded history of listener calls
MaxSeq == 3

----------------------------------------------------------------------------
(* Program constants *)

NOTE_ON == 144
NOTE_OFF == 128
ACTIVE_SENSING == 254

\* variant: the ignore set left empty
NoStatusIgnored == {}

statusMessagesToIgnore == {ACTIVE_SENSING}

Null == "null"
Undefined == "undefined"

----------------------------------------------------------------------------
(* The browser *)

Ports == {"A", "B", "C"}

manufacturer(p) == IF p \in {"A", "B"} THEN "Focusrite" ELSE "Yamaha"

Handles == {"access1", "access2"}

PermissionStates == {"granted", "prompt", "denied"}

\* MIDIAccess.inputs: the ports currently available
inputs(ps) == {p \in Ports : ps[p] = "connected"}

Keys == {60, 61}
Velocities == {0, 100}

\* the status bytes the ports send: the three the program names and one it
\* does not (176, control change)
Statuses == {NOTE_ON, NOTE_OFF, ACTIVE_SENSING, 176}

\* a payload cut or zero-padded to n bytes
Resize(data, n) == [i \in 1..n |-> IF i <= Len(data) THEN data[i] ELSE 0]

\* the payloads the ports deliver: the empty one, every status with a key
\* and a velocity, and the same cut short or followed by more bytes
Messages ==
    {<<>>} \cup
    {Resize(<<s, k, v>>, n) :
        s \in Statuses, k \in Keys, v \in Velocities, n \in {3}} \cup
    {Resize(<<s, 60, v>>, n) :
        s \in Statuses, v \in Velocities, n \in 1..MaxLen}

NoEvent == [type |-> "none"]

----------------------------------------------------------------------------
(* home.tsx: the valibot schemas.  A schema maps the payload to its output, *)
(* or to ValiError when the payload does not match it.                      *)

ValiError == [type |-> "ValiError"]

\* v.strictTuple([v.literal(status), v.number(), v.number()])
strictTuple(status, data) == Len(data) = 3 /\ data[1] = status

NoteOn(data) ==
    IF strictTuple(NOTE_ON, data)
    THEN [type |-> IF data[3] > 0 THEN "note-on" ELSE "note-off",
          key |-> data[2], velocity |-> data[3]]
    ELSE ValiError

NoteOff(data) ==
    IF strictTuple(NOTE_OFF, data)
    THEN [type |-> "note-off", key |-> data[2], velocity |-> data[3]]
    ELSE ValiError

\* v.array(v.number()): every payload is an array of numbers
Unknown(data) == [type |-> "unknown", data |-> data]

\* v.union: the output of the first schema the payload matches
Parser(data) ==
    IF NoteOn(data) # ValiError THEN NoteOn(data)
    ELSE IF NoteOff(data) # ValiError THEN NoteOff(data)
    ELSE Unknown(data)

\* What one call of a midimessage listener does: the held-note set it
\* leaves, the console.log calls it makes, whether it called setNotes and
\* whether an exception left it.
Outcome(ns, logs, set, threw) ==
    [notes |-> ns, logs |-> logs, setNotes |-> set, threw |-> threw]

\* variant: the updater removes a key that is already held
addNoteToggling(ns, key) == IF key \in ns THEN ns \ {key} ELSE ns \cup {key}

\* (notes) => new Set(notes).add(result.key)
addNote(ns, key) == ns \cup {key}

\* variant: the updater returns the copy without deleting the key
deleteNoteKeeping(ns, key) == ns

\* (notes) => { const set = new Set(notes); set.delete(result.key); ... }
deleteNote(ns, key) == ns \ {key}

\* switch (result.type): the held-note set after a decoded event
apply(ns, result) ==
    CASE result.type = "note-on" -> addNote(ns, result.key)
      [] result.type = "note-off" -> deleteNote(ns, result.key)
      [] OTHER -> ns

\* switch (result.type): the cases that call setNotes, always with a new Set
setsNotes(result) == result.type \in {"note-on", "note-off"}

\* variant: the updaters start from the empty set of the first render
\* instead of the set React passes them
HomeMidimessageStale(data, ns) ==
    IF data = <<>> THEN Outcome(ns, <<>>, FALSE, FALSE)
    ELSE IF data[1] \in statusMessagesToIgnore
    THEN Outcome(ns, <<>>, FALSE, FALSE)
    ELSE LET result == Parser(data) IN
         IF result = ValiError THEN Outcome(ns, <<>>, FALSE, TRUE)
         ELSE Outcome(IF setsNotes(result) THEN apply({}, result) ELSE ns,
                      << <<result>> >>, setsNotes(result), FALSE)

\* home.tsx: the midimessage listener of the selected port
HomeMidimessage(data, ns) ==
    IF data = <<>> THEN Outcome(ns, <<>>, FALSE, FALSE)
    ELSE IF data[1] \in statusMessagesToIgnore
    THEN Outcome(ns, <<>>, FALSE, FALSE)
    ELSE LET result == Parser(data) IN
         IF result = ValiError THEN Outcome(ns, <<>>, FALSE, TRUE)
         ELSE Outcome(apply(ns, result), << <<result>> >>,
                      setsNotes(result), FALSE)

----------------------------------------------------------------------------
(* home.tsx: the reducer and the effects *)

initialState == [midiAccess |-> Null, selectedMidiDeviceId |-> Null]

\* a MIDIConnectionEvent without a port
NoPort == [id |-> Null, state |-> Null]

reducer(s, action) ==
    CASE action.type = "obtain-midi-access" ->
            IF s.midiAccess = action.payload THEN s
            ELSE [s EXCEPT !.midiAccess = action.payload]
      [] action.type = "midi-access-state-change" ->
            IF action.payload = NoPort THEN s
            ELSE IF /\ action.payload.state = "disconnected"
                    /\ action.payload.id = s.selectedMidiDeviceId
                 THEN [s EXCEPT !.selectedMidiDeviceId = Null]
                 ELSE s
      [] action.type = "select-midi-device" ->
            IF s.selectedMidiDeviceId = action.payload THEN s
            ELSE [s EXCEPT !.selectedMidiDeviceId = action.payload]
      [] action.type = "deselect-midi-device" ->
            IF s.selectedMidiDeviceId = Null THEN s
            ELSE [s EXCEPT !.selectedMidiDeviceId = Null]
      [] OTHER -> s

\* the <option> values of a render (the empty option is always there)
options(s, ps) == IF s.midiAccess = Null THEN {} ELSE inputs(ps)

\* useEffect [state.midiAccess]: the handle that carries the statechange
\* listener once the effect (and the cleanup of the previous one) has run
statechangeEffect(s) == s.midiAccess

\* variant: the effect without its cleanup, so that the listener of the
\* previous run stays when the new run adds none
midimessageEffectNoCleanup(old, new, ps, current) ==
    IF /\ old.midiAccess = new.midiAccess
       /\ old.selectedMidiDeviceId = new.selectedMidiDeviceId
    THEN current
    ELSE IF new.selectedMidiDeviceId \in {Null, ""} THEN current
    ELSE IF new.midiAccess = Null THEN current
    ELSE IF new.selectedMidiDeviceId \in inputs(ps)
         THEN new.selectedMidiDeviceId
         ELSE current

\* useEffect [state.midiAccess, state.selectedMidiDeviceId]: the port that
\* carries the midimessage listener once the effect has run; the listener
\* of the previous run is aborted by the cleanup
midimessageEffect(old, new, ps, current) ==
    IF /\ old.midiAccess = new.midiAccess
       /\ old.selectedMidiDeviceId = new.selectedMidiDeviceId
    THEN current
    ELSE IF new.selectedMidiDeviceId \in {Null, ""} THEN Null
    ELSE IF new.midiAccess = Null THEN Null
    ELSE IF new.selectedMidiDeviceId \in inputs(ps)
         THEN new.selectedMidiDeviceId
         ELSE Null

\* dispatch(action): the reducer runs, the component renders when the state
\* object changed, and the effects whose dependencies changed run again
Dispatch(action, ps) ==
    LET new == reducer(state, action) IN
    /\ state' = new
    /\ hOptions' = IF new = state THEN hOptions ELSE options(new, ps)
    /\ hRendered' = (new # state)
    /\ hStatechange' = statechangeEffect(new)
    /\ hMidimessage' = midimessageEffect(state, new, ps, hMidimessage)

----------------------------------------------------------------------------
(* midi-devices-machine.ts: the schemas and the listener of the listen actor *)

ListenNoteOn(data) ==
    IF strictTuple(NOTE_ON, data)
    THEN [type |-> "note-on", key |-> data[2], velocity |-> data[3]]
    ELSE ValiError

ListenNoteOff(data) ==
    IF strictTuple(NOTE_OFF, data)
    THEN [type |-> "note-off", key |-> data[2], velocity |-> data[3]]
    ELSE ValiError

\* v.parse(schema, data) throws the ValiError out of the listener;
\* otherwise the output is logged
LogParsed(result, ns) ==
    IF result = ValiError THEN Outcome(ns, <<>>, FALSE, TRUE)
    ELSE Outcome(ns, << <<result>> >>, FALSE, FALSE)

\* the midimessage listener added once input.open() has resolved
ListenMidimessage(data, ns) ==
    CASE data # <<>> /\ data[1] = NOTE_ON -> LogParsed(ListenNoteOn(data), ns)
      [] data # <<>> /\ data[1] = NOTE_OFF -> LogParsed(ListenNoteOff(data), ns)
      [] OTHER -> Outcome(ns, << <<"unknown", data>> >>, FALSE, FALSE)

\* statechangeHandler: the event emitted for a port in state st
statechangeHandler(p, st) ==
    CASE st = "connected" -> [type |-> "midi-port-connected", port |-> p]
      [] st = "disconnected" -> [type |-> "midi-port-disconnected", port |-> p]

NoEmit == [type |-> "none", port |-> Null]

\* inputs.forEach: the ports the actor calls open() on
opened(ps) == {p \in inputs(ps) : manufacturer(p) = "Focusrite"}

\* removeListeners: what the cleanup leaves of the hot-plug subscription
removeListeners(registered) == FALSE

----------------------------------------------------------------------------
(* midi-devices-machine.ts: midiAccessMachine and midiDevicesMachine *)

\* midiAccessMachine context factory
childContext(access) == [midiAccess |-> access, selectedMidiDeviceId |-> Null]

NoChild == [midiAccess |-> Undefined, selectedMidiDeviceId |-> Null]

\* variant: select builds a new context and loses the access handle
childOnReplacing(ctx, event) ==
    CASE event.type = "select-midi-device" ->
            [midiAccess |-> Undefined, selectedMidiDeviceId |-> event.id]
      [] event.type = "deselect-midi-device" ->
            [ctx EXCEPT !.selectedMidiDeviceId = Null]
      [] OTHER -> ctx

\* midiAccessMachine.on: the context after an event
childOn(ctx, event) ==
    CASE event.type = "select-midi-device" ->
            [ctx EXCEPT !.selectedMidiDeviceId = event.id]
      [] event.type = "deselect-midi-device" ->
            [ctx EXCEPT !.selectedMidiDeviceId = Null]
      [] event.type = "midi-port-connected" -> ctx
      [] event.type = "midi-port-disconnected" -> ctx
      [] OTHER -> ctx

\* variant: the switch without its 'denied' case
requestsAccessAlways(status) == status \in PermissionStates

\* obtain-midi-access: the permission states for which access is requested
requestsAccess(status) == status \in {"granted", "prompt"}

\* loading.invoke.onDone / onError
onDoneTarget == "loaded"
onErrorTarget == "error"
\* variant: onDone without its assign action
onDoneNoAssign(ctx, output) == ctx

onDoneAssign(ctx, output) == [ctx EXCEPT !.midiAccess = output]

\* variant: the midi-access invoke on every state instead of on loaded
invokedEverywhere(s) == 1

\* the number of midi-access children started on entry to a state
invoked(s) == IF s = "loaded" THEN 1 ELSE 0

\* stopChild('midi-access'): the running children left
stopChild(n) == IF n > 0 THEN n - 1 ELSE 0

\* entry to a state: the invoked child machine starts with the context's
\* access handle, and the child starts its listen actor
Enter(s, ctx) ==
    /\ mState' = s
    /\ mContext' = ctx
    /\ mChildren' = mChildren + invoked(s)
    /\ IF invoked(s) > 0
       THEN /\ aContext' = childContext(ctx.midiAccess)
            /\ lStatus' = "active"
            /\ lStatechange' = TRUE
            /\ lOpening' = opened(portState)
            /\ lMsgListeners' = {}
            /\ lEmitted' = NoEmit
       ELSE UNCHANGED childVars

----------------------------------------------------------------------------
(* Initial state: one entry point is mounted and its permission query is   *)
(* pending; every port is connected.                                       *)

Init ==
    /\ mounted \in {"home", "machine"}
    /\ portState = [p \in Ports |-> "connected"]
    /\ permissionStatus = Null
    /\ requestCalls = 0
    /\ accessOutcome = Null
    /\ lastEvent = NoEvent
    /\ logged = <<>>
    /\ listenerError = FALSE
    /\ hPc = IF mounted = "home" THEN "query" ELSE "idle"
    /\ state = initialState
    /\ notes = {}
    /\ hOptions = {}
    /\ hStatechange = Null
    /\ hMidimessage = Null
    /\ hRendered = FALSE
    /\ received = <<>>
    /\ trail = <<>>
    /\ mState = "loading"
    /\ mContext = [midiAccess |-> Undefined]
    /\ oPc = IF mounted = "machine" THEN "query" ELSE "idle"
    /\ mStopSeen = FALSE
    /\ mChildren = 0
    /\ aContext = NoChild
    /\ lStatus = "none"
    /\ lStatechange = FALSE
    /\ lOpening = {}
    /\ lMsgListeners = {}
    /\ lEmitted = NoEmit

browserVars == <<portState, accessOutcome, lastEvent, logged, listenerError>>

\* everything of the browser but the outcome of requestMIDIAccess
otherEnvVars == <<mounted, portState, permissionStatus, requestCalls,
                  lastEvent, logged, listenerError>>

----------------------------------------------------------------------------
(* Home: the permission promise chain of the first effect *)

\* permissions.query resolved: 'denied' throws, otherwise access is requested
HomePermissionResolved(status) ==
    /\ hPc = "query"
    /\ permissionStatus' = status
    /\ IF status = "denied"
       THEN hPc' = "rejected" /\ UNCHANGED requestCalls
       ELSE hPc' = "request" /\ requestCalls' = requestCalls + 1
    /\ UNCHANGED <<mounted, browserVars, state, notes, hOptions, hStatechange,
                   hMidimessage, hRendered, orchVars, childVars, histVars>>

\* permissions.query rejected: the chain rejects, nothing handles it
HomePermissionRejected ==
    /\ hPc = "query"
    /\ hPc' = "rejected"
    /\ UNCHANGED <<envVars, state, notes, hOptions, hStatechange,
                   hMidimessage, hRendered, orchVars, childVars, histVars>>

\* requestMIDIAccess resolved: dispatch obtain-midi-access
HomeAccessResolved(access) ==
    /\ hPc = "request"
    /\ hPc' = "done"
    /\ accessOutcome' = access
    /\ Dispatch([type |-> "obtain-midi-access", payload |-> access], portState)
    /\ UNCHANGED <<otherEnvVars, notes, orchVars, childVars, histVars>>

HomeAccessRejected ==
    /\ hPc = "request"
    /\ hPc' = "rejected"
    /\ accessOutcome' = "rejected"
    /\ UNCHANGED <<otherEnvVars, state, notes, hOptions, hStatechange,
                   hMidimessage, hRendered, orchVars, childVars, histVars>>

\* the value the <select> shows
selectValue(s) ==
    IF s.selectedMidiDeviceId = Null THEN "" ELSE s.selectedMidiDeviceId

\* <select> onChange: the user picks another of the rendered options
HomeSelectChange(value) ==
    /\ mounted = "home"
    /\ value \in hOptions \cup {""}
    /\ value # selectValue(state)
    /\ Dispatch([type |-> "select-midi-device", payload |-> value], portState)
    /\ UNCHANGED <<envVars, hPc, notes, orchVars, childVars, histVars>>

\* variant: deselecting also resets the held-note set
HomeDeselectClearing ==
    /\ mounted = "home"
    /\ Dispatch([type |-> "deselect-midi-device"], portState)
    /\ notes' = {}
    /\ UNCHANGED <<envVars, hPc, orchVars, childVars, histVars>>

\* dispatch of the reducer's deselect-midi-device action
HomeDeselect ==
    /\ mounted = "home"
    /\ Dispatch([type |-> "deselect-midi-device"], portState)
    /\ UNCHANGED <<envVars, hPc, notes, orchVars, childVars, histVars>>

----------------------------------------------------------------------------
(* midiDevicesMachine: the obtain-midi-access actor and the stop event *)

\* permissions.query resolved: 'denied' throws (onError), otherwise access
\* is requested
ObtainPermissionResolved(status) ==
    /\ oPc = "query"
    /\ permissionStatus' = status
    /\ IF requestsAccess(status)
       THEN /\ oPc' = "request"
            /\ requestCalls' = requestCalls + 1
            /\ UNCHANGED <<mState, mContext, mChildren, childVars>>
       ELSE /\ oPc' = "done"
            /\ UNCHANGED requestCalls
            /\ Enter(onErrorTarget, mContext)
    /\ UNCHANGED <<mounted, browserVars, homeVars, mStopSeen, histVars>>

\* permissions.query rejected: onError
ObtainPermissionRejected ==
    /\ oPc = "query"
    /\ oPc' = "done"
    /\ Enter(onErrorTarget, mContext)
    /\ UNCHANGED <<envVars, homeVars, mStopSeen, histVars>>

\* requestMIDIAccess resolved: onDone assigns the output and enters loaded
ObtainAccessResolved(access) ==
    /\ oPc = "request"
    /\ oPc' = "done"
    /\ accessOutcome' = access
    /\ Enter(onDoneTarget, onDoneAssign(mContext, access))
    /\ UNCHANGED <<otherEnvVars, homeVars, mStopSeen, histVars>>

\* requestMIDIAccess rejected: onError
ObtainAccessRejected ==
    /\ oPc = "request"
    /\ oPc' = "done"
    /\ accessOutcome' = "rejected"
    /\ Enter(onErrorTarget, mContext)
    /\ UNCHANGED <<otherEnvVars, homeVars, mStopSeen, histVars>>

\* on.stop: stopChild('midi-access'); stopping the child stops its listen
\* actor, whose cleanup runs removeListeners
Stop ==
    /\ mounted = "machine"
    /\ mStopSeen' = TRUE
    /\ mChildren' = stopChild(mChildren)
    /\ IF mChildren > 0
       THEN /\ lStatus' = "stopped"
            /\ lStatechange' = removeListeners(lStatechange)
       ELSE UNCHANGED <<lStatus, lStatechange>>
    /\ UNCHANGED <<envVars, homeVars, mState, mContext, oPc, aContext,
                   lOpening, lMsgListeners, lEmitted, histVars>>

----------------------------------------------------------------------------
(* midiAccessMachine: events sent to the running child *)

ChildSend(event) ==
    /\ mChildren > 0
    /\ aContext' = childOn(aContext, event)
    /\ UNCHANGED <<envVars, homeVars, orchVars, lStatus, lStatechange,
                   lOpening, lMsgListeners, lEmitted, histVars>>

SelectMidiDevice(id) == ChildSend([type |-> "select-midi-device", id |-> id])

DeselectMidiDevice == ChildSend([type |-> "deselect-midi-device"])

\* input.open() resolved: the midimessage listener is added
OpenResolved(p) ==
    /\ p \in lOpening
    /\ portState[p] = "connected"
    /\ lOpening' = lOpening \ {p}
    /\ lMsgListeners' = lMsgListeners \cup {p}
    /\ UNCHANGED <<envVars, homeVars, orchVars, aContext, lStatus,
                   lStatechange, lEmitted, histVars>>

\* input.open() rejected: nothing handles it
OpenRejected(p) ==
    /\ p \in lOpening
    /\ lOpening' = lOpening \ {p}
    /\ UNCHANGED <<envVars, homeVars, orchVars, aContext, lStatus,
                   lStatechange, lMsgListeners, lEmitted, histVars>>

----------------------------------------------------------------------------
(* Browser events *)

flip(st) == IF st = "connected" THEN "disconnected" ELSE "connected"

\* A port is plugged or unplugged: the statechange event reaches Home's
\* listener (which dispatches midi-access-state-change) and the listen
\* actor's statechangeHandler (which emits; the child machine's transition
\* for the emitted event has no actions).
Hotplug(p) ==
    LET st == flip(portState[p])
        ps == [portState EXCEPT ![p] = st]
    IN  /\ portState' = ps
        /\ lastEvent' = [type |-> "statechange", port |-> p, state |-> st]
        /\ logged' = <<>>
        /\ listenerError' = FALSE
        /\ IF hStatechange # Null
           THEN Dispatch([type |-> "midi-access-state-change",
                          payload |-> [id |-> p, state |-> st]], ps)
           ELSE UNCHANGED <<state, hOptions, hStatechange, hMidimessage,
                            hRendered>>
        /\ IF lStatechange
           THEN /\ lEmitted' = statechangeHandler(p, st)
                /\ aContext' = IF mChildren > 0
                               THEN childOn(aContext, statechangeHandler(p, st))
                               ELSE aContext
           ELSE lEmitted' = NoEmit /\ UNCHANGED aContext
        /\ UNCHANGED <<mounted, permissionStatus, requestCalls, accessOutcome,
                       hPc, notes, orchVars, lStatus, lStatechange, lOpening,
                       lMsgListeners, histVars>>

\* A connected port that carries a midimessage listener delivers a
\* message: what the listener does with it
Deliver(p, data) ==
    /\ portState[p] = "connected"
    /\ hMidimessage = p \/ p \in lMsgListeners
    /\ LET o == IF hMidimessage = p
                THEN HomeMidimessage(data, notes)
                ELSE ListenMidimessage(data, notes)
       IN  /\ notes' = o.notes
           /\ logged' = o.logs
           /\ listenerError' = o.threw
           /\ hOptions' = IF o.setNotes THEN options(state, portState)
                          ELSE hOptions
           /\ hRendered' = o.setNotes
    /\ lastEvent' = [type |-> "midimessage", port |-> p, data |-> data]
    /\ lEmitted' = NoEmit
    /\ UNCHANGED <<mounted, portState, permissionStatus, requestCalls,
                   accessOutcome, hPc, state, hStatechange, hMidimessage,
                   orchVars, aContext, lStatus, lStatechange, lOpening,
                   lMsgListeners>>

MidiMessage(p, data) == Deliver(p, data) /\ UNCHANGED histVars

----------------------------------------------------------------------------

Next ==
    \/ \E status \in PermissionStates : HomePermissionResolved(status)
    \/ HomePermissionRejected
    \/ \E access \in Handles : HomeAccessResolved(access)
    \/ HomeAccessRejected
    \/ \E value \in Ports \cup {""} : HomeSelectChange(value)
    \/ HomeDeselect
    \/ \E status \in PermissionStates : ObtainPermissionResolved(status)
    \/ ObtainPermissionRejected
    \/ \E access \in Handles : ObtainAccessResolved(access)
    \/ ObtainAccessRejected
    \/ Stop
    \/ \E id \in Ports : SelectMidiDevice(id)
    \/ DeselectMidiDevice
    \/ \E p \in Ports : OpenResolved(p)
    \/ \E p \in Ports : OpenRejected(p)
    \/ \E p \in Ports : Hotplug(p)
    \/ \E p \in Ports, data \in Messages : MidiMessage(p, data)

Spec == Init /\ [][Next]_vars

----------------------------------------------------------------------------
(* Home with the history of its midimessage listener: every call of the     *)
(* listener is recorded, for payloads that decode to each kind of event.    *)

\* note-on and note-off of both keys, a note-on of velocity 0, active
\* sensing and a control change
NoteMessages ==
    {<<NOTE_ON, 60, 100>>, <<NOTE_ON, 61, 100>>, <<NOTE_ON, 60, 0>>,
     <<NOTE_OFF, 61, 0>>, <<ACTIVE_SENSING>>, <<176, 60, 100>>}

\* the ports plugged and unplugged while the history is recorded
Pluggable == {"A", "B"}

RecordedMessage(p, data) ==
    /\ Len(received) < MaxSeq
    /\ Deliver(p, data)
    /\ received' = Append(received, data)
    /\ trail' = Append(trail, notes')

InitHome == Init /\ mounted = "home"

NextNotes ==
    \/ \E status \in PermissionStates : HomePermissionResolved(status)
    \/ HomePermissionRejected
    \/ \E access \in Handles : HomeAccessResolved(access)
    \/ HomeAccessRejected
    \/ \E value \in Ports \cup {""} : HomeSelectChange(value)
    \/ HomeDeselect
    \/ \E p \in Pluggable : Hotplug(p)
    \/ \E p \in Ports, data \in NoteMessages : RecordedMessage(p, data)

SpecNotes == InitHome /\ [][NextNotes]_vars

----------------------------------------------------------------------------
(* Properties *)

\* the last browser event was a midimessage delivered to a listener
Delivered == lastEvent.type = "midimessage"

\* a recognized status byte with fewer than the three bytes it needs
Malformed(data) ==
    /\ data # <<>>
    /\ data[1] \in {NOTE_ON, NOTE_OFF}
    /\ Len(data) < 3

\* the decoded events among the console.log calls of a listener
events(logs) == {logs[i][1] : i \in {j \in 1..Len(logs) : Len(logs[j]) = 1}}

\* C1: whenever a port is unplugged while the hot-plug listener is
\* subscribed, the selection is cleared if it named that port and is left
\* alone otherwise, in the Home reducer state and in the midi-access
\* machine's context alike.
C1_SelectionClearedOnDisconnect ==
    [][\A p \in Ports :
        (portState[p] = "connected" /\ portState'[p] = "disconnected") =>
            /\ hStatechange # Null =>
                  state'.selectedMidiDeviceId =
                      IF state.selectedMidiDeviceId = p THEN Null
                      ELSE state.selectedMidiDeviceId
            /\ (mChildren > 0 /\ lStatechange) =>
                  aContext'.selectedMidiDeviceId =
                      IF aContext.selectedMidiDeviceId = p THEN Null
                      ELSE aContext.selectedMidiDeviceId]_vars

\* C2: once the listen actor has been torn down, neither the statechange
\* listener nor any midimessage listener it registered is still registered,
\* whatever the order of the teardown and the open() completions.
C2_TeardownReleasesListeners ==
    lStatus = "stopped" => (~lStatechange /\ lMsgListeners = {})

\* C3: when the permission query resolved to 'denied', requestMIDIAccess has
\* not been called, the orchestrator is in error with no child and no access
\* handle, and Home holds no access handle.
C3_DeniedNeverRequests ==
    permissionStatus = "denied" =>
        /\ requestCalls = 0
        /\ accessOutcome = Null
        /\ mounted = "machine" =>
              (mState = "error" /\ mChildren = 0 /\
               mContext.midiAccess = Undefined)
        /\ mounted = "home" => (state.midiAccess = Null /\ hPc = "rejected")

C3_Witness ==
    /\ mounted = "machine"
    /\ permissionStatus = "denied"
    /\ mState = "error"
    /\ mStopSeen

\* C4: once a stop event has been handled, no midi-access child machine is
\* running, in whichever state the stop arrived.
C4_NoChildAfterStop ==
    mStopSeen => mChildren = 0

\* C5: in the machine, a query resolved to 'granted' or 'prompt' has
\* requested access exactly once; a resolved request has entered loaded with
\* the resolved handle in context.midiAccess (and as the child's input); a
\* rejected request has entered error; loaded holds a defined handle.
C5_AccessAcquisition ==
    mounted = "machine" =>
        /\ permissionStatus \in {"granted", "prompt"} => requestCalls = 1
        /\ accessOutcome \in Handles =>
              /\ mState = "loaded"
              /\ mContext.midiAccess = accessOutcome
              /\ aContext.midiAccess = accessOutcome
        /\ accessOutcome = "rejected" => mState = "error"
        /\ mState = "loaded" =>
              /\ mContext.midiAccess # Undefined
              /\ accessOutcome \in Handles
              /\ permissionStatus \in {"granted", "prompt"}
        /\ mState = "loading" => accessOutcome = Null

C5_Witness ==
    /\ mState = "loaded"
    /\ permissionStatus = "prompt"
    /\ accessOutcome = "access2"
    /\ mContext.midiAccess = "access2"

C7_NoteOnDecoding ==
    (Delivered /\ Len(lastEvent.data) >= 3 /\ lastEvent.data[1] = NOTE_ON) =>
        /\ ~listenerError
        /\ logged = << << [type |-> IF lastEvent.data[3] > 0
                                   THEN "note-on" ELSE "note-off",
                          key |-> lastEvent.data[2],
                          velocity |-> lastEvent.data[3]] >> >>

\* C8: a delivered payload with a recognized status and fewer than three
\* bytes makes the decoder fail: the parse throws and no event is returned.
C8_MalformedSignalled ==
    (Delivered /\ Malformed(lastEvent.data)) =>
        (listenerError /\ events(logged) = {})

\* C9: a payload with a recognized status and a missing data byte raises no
\* error out of the midimessage listener and leaves the held-note set as it
\* was.
C9_MalformedResilience ==
    [][\A p \in Ports, data \in Messages :
        (Malformed(data) /\ MidiMessage(p, data)) =>
            (~listenerError' /\ notes' = notes)]_vars

----------------------------------------------------------------------------
(* The held-note set over the recorded history of Home's listener *)

\* the event Home's listener decodes from a payload; none when the listener
\* returns before it parses
Decoded(data) ==
    IF data = <<>> THEN NoEvent
    ELSE IF data[1] \in statusMessagesToIgnore THEN NoEvent
    ELSE Parser(data)

\* the held-note set before the i-th recorded call of the listener
Before(i) == IF i = 1 THEN {} ELSE trail[i - 1]

\* C11: over the recorded calls of Home's listener, a note-on for a key
\* that directly follows a note-on for the same key leaves the held-note
\* set equal to what the first one left, and a note-off for a key that is
\* not held leaves the set equal to what it was.
C11_AccumulatorIdempotence ==
    /\ Len(trail) = Len(received)
    /\ \A i \in 1..Len(received) : \A k \in Keys :
          LET e == Decoded(received[i]) IN
          /\ (i > 1 /\ e.type = "note-on" /\ e.key = k /\
              Decoded(received[i - 1]).type = "note-on" /\
              Decoded(received[i - 1]).key = k) =>
                  trail[i] = trail[i - 1]
          /\ (e.type = "note-off" /\ e.key = k /\ k \notin Before(i)) =>
                  trail[i] = Before(i)

C11_Witness ==
    /\ received = << <<NOTE_ON, 61, 100>>, <<NOTE_ON, 61, 100>>,
                     <<NOTE_ON, 60, 0>> >>
    /\ trail = <<{61}, {61}, {61}>>
    /\ notes = {61}

\* C12: over the recorded calls of Home's listener, a note-on for a key
\* that was not held directly followed by a note-off for that key leaves
\* the held-note set equal to what it was before the two; NoteOn{60,100}
\* then a NoteOff{60,0} on the empty set leaves the empty set.
C12_AccumulatorRoundTrip ==
    /\ \A i \in 2..Len(received) : \A k \in Keys :
          (/\ Decoded(received[i - 1]).type = "note-on"
           /\ Decoded(received[i - 1]).key = k
           /\ Decoded(received[i]).type = "note-off"
           /\ Decoded(received[i]).key = k
           /\ k \notin Before(i - 1)) => trail[i] = Before(i - 1)
    /\ (/\ Len(received) = 2
        /\ Decoded(received[1]) =
               [type |-> "note-on", key |-> 60, velocity |-> 100]
        /\ Decoded(received[2]) =
               [type |-> "note-off", key |-> 60, velocity |-> 0]) => notes = {}

C12_Witness ==
    /\ received = << <<NOTE_ON, 61, 100>>, <<NOTE_ON, 60, 100>>,
                     <<NOTE_ON, 60, 0>> >>
    /\ trail = <<{61}, {60, 61}, {61}>>
    /\ notes = {61}

\* C13: a payload delivered to Home's listener that leaves the held-note
\* set equal to what it was (a note-on for a held key, a note-off for a key
\* not held, an unknown event) hands React no new Set object, so Home does
\* not render again.
C13_NoRenderWhenUnchanged ==
    [][\A p \in Ports, data \in Messages :
        (MidiMessage(p, data) /\ hMidimessage = p /\ notes' = notes) =>
            ~hRendered']_vars

\* the accumulator folded over the decoded events of a history of payloads,
\* in arrival order
RECURSIVE fold(_, _)
fold(ns, msgs) ==
    IF msgs = <<>> THEN ns
    ELSE fold(apply(ns, Decoded(Head(msgs))), Tail(msgs))

\* C14: after any recorded sequence of payloads delivered to Home's
\* listener, the held-note set is the fold of the accumulator over the
\* decoded events in arrival order, and so it was after each of them.
C14_ArrivalOrderFold ==
    /\ Len(trail) = Len(received)
    /\ notes = fold({}, received)
    /\ \A i \in 1..Len(received) : trail[i] = fold({}, SubSeq(received, 1, i))

C14_Witness ==
    /\ received = << <<NOTE_ON, 60, 100>>, <<176, 60, 100>>,
                     <<NOTE_ON, 61, 100>> >>
    /\ notes = {60, 61}
    /\ lastEvent.type = "statechange"

\* C15: on entry to listening the listen actor subscribes to statechange
\* and starts, for every input port the access handle enumerates then, the
\* open() that registers its midimessage listener; an open() that fails
\* drops that port only.
C15_ListeningEntry ==
    [][/\ (lStatus # "active" /\ lStatus' = "active") =>
              (lStatechange' /\ lOpening' = inputs(portState))
       /\ \A p \in Ports : OpenRejected(p) =>
              /\ lOpening' = lOpening \ {p}
              /\ lMsgListeners' = lMsgListeners]_vars

\* C16: a select event leaves the selection at the id it names and a
\* deselect event leaves it at none, with the access handle as it was, in
\* the midi-access machine's context and in Home's reducer state alike;
\* selecting the selected id, or deselecting when nothing is selected,
\* leaves the state as it was.
C16_SelectionEvents ==
    [][/\ \A id \in Ports : SelectMidiDevice(id) =>
              /\ aContext' = [midiAccess |-> aContext.midiAccess,
                              selectedMidiDeviceId |-> id]
              /\ aContext.selectedMidiDeviceId = id => aContext' = aContext
       /\ DeselectMidiDevice =>
              /\ aContext' = [midiAccess |-> aContext.midiAccess,
                              selectedMidiDeviceId |-> Null]
              /\ aContext.selectedMidiDeviceId = Null => aContext' = aContext
       /\ \A value \in Ports \cup {""} : HomeSelectChange(value) =>
              /\ state' = [midiAccess |-> state.midiAccess,
                           selectedMidiDeviceId |-> value]
              /\ reducer(state', [type |-> "select-midi-device",
                                  payload |-> value]) = state'
       /\ HomeDeselect =>
              /\ state' = [midiAccess |-> state.midiAccess,
                           selectedMidiDeviceId |-> Null]
              /\ state.selectedMidiDeviceId = Null =>
                    (state' = state /\ ~hRendered')]_vars

C16_Witness ==
    /\ mChildren = 1
    /\ aContext = [midiAccess |-> "access2", selectedMidiDeviceId |-> "C"]
    /\ portState["C"] = "connected"

\* C17: a selection that is not empty names an input port of the access
\* handle that is connected, in Home's reducer state and in the midi-access
\* machine's context alike.
C17_SelectedDeviceValid ==
    /\ state.selectedMidiDeviceId \notin {Null, ""} =>
          /\ state.midiAccess # Null
          /\ state.selectedMidiDeviceId \in inputs(portState)
    /\ aContext.selectedMidiDeviceId # Null =>
          /\ aContext.midiAccess \in Handles
          /\ aContext.selectedMidiDeviceId \in inputs(portState)

\* C18: an event sent to the orchestrator while the permission query or
\* the access request is pending is held back: a stop event has been
\* handled only once the obtain-midi-access actor has settled.
C18_EventsQueuedWhilePending ==
    mStopSeen => (oPc = "done" /\ mState # "loading")

\* C19: after every step Home's midimessage listener is on no port or on
\* the port the selection names, and on none when the selection is null or
\* empty; the held-note set changes only on a message delivered by the
\* selected port to that listener.
C19_ListenerExclusivity ==
    [][/\ hMidimessage' \in {Null, state'.selectedMidiDeviceId}
       /\ state'.selectedMidiDeviceId \in {Null, ""} => hMidimessage' = Null
       /\ notes' # notes =>
              /\ lastEvent'.type = "midimessage"
              /\ lastEvent'.port = state.selectedMidiDeviceId
              /\ lastEvent'.port = hMidimessage]_vars

C19_Witness ==
    /\ hMidimessage = "B"
    /\ state.selectedMidiDeviceId = "B"
    /\ Delivered
    /\ lastEvent.port = "B"
    /\ notes = {60, 61}
    /\ portState["A"] = "connected"

\* C20: a step that changes Home's selection (another device selected, the
\* selection cleared, the selected device unplugged) leaves the held-note
\* set as it was, and a held key leaves the set only on a note-off for
\* that key delivered to the listener.
C20_SelectionLeavesNotes ==
    [][/\ state'.selectedMidiDeviceId # state.selectedMidiDeviceId =>
              notes' = notes
       /\ \A k \in notes \ notes' :
              /\ lastEvent'.type = "midimessage"
              /\ Decoded(lastEvent'.data).type = "note-off"
              /\ Decoded(lastEvent'.data).key = k
              /\ hMidimessage = lastEvent'.port]_vars

C20_Witness ==
    /\ notes = {60}
    /\ state.selectedMidiDeviceId = Null
    /\ hMidimessage = Null
    /\ lastEvent.type = "statechange"
    /\ lastEvent.state = "disconnected"

====
